---------------------------- MODULE Spec2Model ----------------------------
(***************************************************************************)
(* A model of the portfolio optimiser (portfoliooptimiser/                 *)
(* portfolio_optimiser.py and market_api.py): the market data fetch, the   *)
(* log-return computation, the annualised statistics, the Monte-Carlo      *)
(* sampler and the two optimisers.                                         *)
(*                                                                         *)
(* Numbers.  A float is modelled by an exact fraction [n |-> p, d |-> q]   *)
(* in lowest terms with q > 0, or by one of the three IEEE specials:       *)
(* nan = 0/0, +inf = 1/0, -inf = -1/0.  Floating-point rounding error is   *)
(* not modelled.  Prices are powers of two, so that every log-return is a  *)
(* whole multiple of ln 2; returns are kept in units of ln 2.  A           *)
(* volatility is a square root: it is kept as [sq |-> v], the number       *)
(* sqrt(v).  A Sharpe ratio is the quotient of a fraction by such a root:  *)
(* it is kept as [num |-> r, den |-> vol].                                 *)
(***************************************************************************)
EXTENDS Integers, Sequences, FiniteSets, TLC

(***************************************************************************)
(* Bounds of the model.                                                    *)
(***************************************************************************)
MaxTickers == 6      \* a request names 1..MaxTickers tickers
MaxRows == 4         \* a price table has at most MaxRows time steps
MaxKinds == 2        \* at most MaxKinds different price series in one table
MaxSims == 2         \* number_of_simulations is in 1..MaxSims
MaxDraw == 2         \* np.random.random yields k/(MaxDraw+1), k in 0..MaxDraw
RngPeriod == 3       \* number of states of the process-global generator
MaxShuffled == 2     \* tables of up to MaxShuffled columns come in any column order
MaxRunTickers == 1   \* a request of the UI names up to MaxRunTickers tickers

(***************************************************************************)
(* Program constants.                                                      *)
(***************************************************************************)
TRADING_DAYS_IN_A_YEAR == 252
ROUND_DECIMALS == 3

(***************************************************************************)
(* Exact fractions with the IEEE specials.                                 *)
(***************************************************************************)
Abs(i) == IF i < 0 THEN -i ELSE i

Sign(i) == IF i < 0 THEN -1 ELSE IF i > 0 THEN 1 ELSE 0

RECURSIVE GCD(_, _)
GCD(a, b) == IF b = 0 THEN a ELSE GCD(b, a % b)

Frac(p, q) ==
    IF q = 0 THEN [n |-> Sign(p), d |-> 0]
    ELSE LET g == GCD(Abs(p), Abs(q))
             s == IF q < 0 THEN -1 ELSE 1
         IN  [n |-> s * (p \div g), d |-> s * (q \div g)]

Int2R(i) == [n |-> i, d |-> 1]
Zero == Int2R(0)
One == Int2R(1)
NaN == [n |-> 0, d |-> 0]
PInf == [n |-> 1, d |-> 0]
NInf == [n |-> -1, d |-> 0]

IsNaN(x) == x.d = 0 /\ x.n = 0
IsInf(x) == x.d = 0 /\ x.n # 0
IsFinite(x) == x.d # 0

RNeg(x) == [n |-> -x.n, d |-> x.d]

RAdd(x, y) ==
    IF IsNaN(x) \/ IsNaN(y) THEN NaN
    ELSE IF IsInf(x) /\ IsInf(y) THEN (IF x.n = y.n THEN x ELSE NaN)
    ELSE IF IsInf(x) THEN x
    ELSE IF IsInf(y) THEN y
    ELSE LET g == GCD(x.d, y.d)
         IN  Frac(x.n * (y.d \div g) + y.n * (x.d \div g), (x.d \div g) * y.d)

RSub(x, y) == RAdd(x, RNeg(y))

RMul(x, y) ==
    IF IsNaN(x) \/ IsNaN(y) THEN NaN
    ELSE IF IsInf(x) \/ IsInf(y)
         THEN (IF x.n = 0 \/ y.n = 0 THEN NaN
               ELSE [n |-> Sign(x.n) * Sign(y.n), d |-> 0])
    ELSE LET g1 == GCD(Abs(x.n), y.d)
             g2 == GCD(Abs(y.n), x.d)
         IN  Frac((x.n \div g1) * (y.n \div g2), (x.d \div g2) * (y.d \div g1))

\* numpy's true division: x/0 is +-inf or nan (a warning, no exception).
RDiv(x, y) ==
    IF IsNaN(x) \/ IsNaN(y) THEN NaN
    ELSE IF IsInf(y) THEN (IF IsInf(x) THEN NaN ELSE Zero)
    ELSE IF y.n = 0 THEN [n |-> Sign(x.n), d |-> 0]
    ELSE RMul(x, Frac(y.d, y.n))

\* x < y and x <= y as IEEE orders them: false whenever nan is involved.
RLess(x, y) ==
    /\ ~IsNaN(x) /\ ~IsNaN(y)
    /\ IF IsInf(x) THEN x.n < 0 /\ y # x
       ELSE IF IsInf(y) THEN y.n > 0
       ELSE LET g == GCD(x.d, y.d)
            IN  x.n * (y.d \div g) < y.n * (x.d \div g)

RLeq(x, y) == ~IsNaN(x) /\ ~IsNaN(y) /\ (x = y \/ RLess(x, y))

RECURSIVE RSum(_)
RSum(s) == IF s = << >> THEN Zero ELSE RAdd(Head(s), RSum(Tail(s)))


(***************************************************************************)
(* Vectors and tables.  A table is a sequence of rows, a row a sequence    *)
(* of one value per column.                                                *)
(***************************************************************************)
\* The sequence <<F(1), ..., F(n)>>, its elements computed once.
MkVec(n, F(_)) == SubSeq([i \in 1..n |-> F(i)], 1, n)

Column(df, j) == MkVec(Len(df), LAMBDA t : df[t][j])

(***************************************************************************)
(* The market data provider (yfinance behind YFinanceAPI).  Its response   *)
(* to one download is None, an empty table, or a table of prices with one  *)
(* column per requested ticker.  The price series the model draws from:    *)
(* every price is a power of two, 0 (a non-positive price) or nan (a       *)
(* missing price).  A ticker is named by its place in the caller's list;   *)
(* the provider orders the columns of its table as it likes, and gives the *)
(* price field of a one-ticker download as a series or as a one-column     *)
(* table.                                                                  *)
(***************************************************************************)
RECURSIVE Pow2(_)
Pow2(e) == IF e = 0 THEN 1 ELSE 2 * Pow2(e - 1)

SeriesKinds == <<"flat", "swing", "ramp", "zero", "gap">>

\* The price of a series of kind k at time step t (t = 1 is the first row).
SeriesPrice(k, t) ==
    CASE k = "flat"  -> Int2R(1)
      [] k = "swing" -> Int2R(Pow2((t - 1) % 2))
      [] k = "ramp"  -> Int2R(Pow2(IF t <= 2 THEN 0 ELSE t - 2))
      [] k = "zero"  -> IF t = 1 THEN Zero ELSE Int2R(Pow2(t - 2))
      [] k = "gap"   -> IF t = 1 THEN NaN ELSE Int2R(Pow2(t % 2))

\* Which series each column holds: non-decreasing in the order of
\* SeriesKinds, with at most MaxKinds different series in one table.
KindAssignments(n) ==
    { f \in [1..n -> 1..Len(SeriesKinds)] :
        /\ \A i \in 1..(n - 1) : f[i] <= f[i + 1]
        /\ Cardinality({f[i] : i \in 1..n}) <= MaxKinds }

PriceTable(f, n, r) ==
    MkVec(r, LAMBDA t : MkVec(n, LAMBDA j : SeriesPrice(SeriesKinds[f[j]], t)))

TickerLists == { MkVec(n, LAMBDA i : i) : n \in 1..MaxTickers }

NoneResponse ==
    [kind |-> "none", field |-> "none", columns |-> << >>, rows |-> << >>]
EmptyResponse ==
    [kind |-> "empty", field |-> "none", columns |-> << >>, rows |-> << >>]

ColumnPermutations(n) ==
    { p \in [1..n -> 1..n] : \A i, j \in 1..n : i # j => p[i] # p[j] }

\* The orders the provider may give the columns of the tickers' table.
ColumnOrders(tk) ==
    IF Len(tk) <= MaxShuffled
    THEN { MkVec(Len(tk), LAMBDA j : tk[p[j]]) :
             p \in ColumnPermutations(Len(tk)) }
    ELSE {tk}

\* The shapes data[price_type.value] may have: a table, or for one ticker
\* also a series.
FieldShapes(tk) ==
    IF Len(tk) = 1 THEN {"series", "table"} ELSE {"table"}

\* What yf.download may answer to a request for `tk`: ticker k has
\* the series f[k], and column j is the one of ticker columns[j].
Responses(tk) ==
    {NoneResponse, EmptyResponse} \cup
    { [kind |-> "table", field |-> shape, columns |-> cols,
       rows |-> PriceTable([j \in 1..Len(tk) |-> f[cols[j]]],
                           Len(tk), r)] :
        f \in KindAssignments(Len(tk)), r \in 1..MaxRows,
        cols \in ColumnOrders(tk), shape \in FieldShapes(tk) }

(***************************************************************************)
(* YFinanceAPI.get_historical_ticker_data: raises ValueError when the      *)
(* download is None or empty, else returns the table of the price field,   *)
(* its columns in the provider's order.  For one ticker it calls to_frame  *)
(* on the field, which a series has and a table has not (AttributeError);  *)
(* the final assert refuses a series (AssertionError).                     *)
(***************************************************************************)
NoTable == << >>

FetchRaised(e) == [error |-> e, columns |-> << >>, table |-> NoTable]

\* result = data[price_type.value] and what follows it, for the download d
SelectPriceField(tk, d) ==
    IF Len(tk) = 1
    THEN IF d.field = "series"
         THEN [error |-> "none", columns |-> <<tk[1]>>, table |-> d.rows]
         ELSE FetchRaised("AttributeError")
    ELSE IF d.field = "series" THEN FetchRaised("AssertionError")
    ELSE [error |-> "none", columns |-> d.columns, table |-> d.rows]

\* A variant that tests only `data is None`: indexing the empty table by the
\* price field then raises KeyError.
GetHistoricalTickerDataNoneOnly(tk, d) ==
    IF d.kind = "none" THEN FetchRaised("ValueError")
    ELSE IF d.kind = "empty" \/ d.rows = << >> THEN FetchRaised("KeyError")
    ELSE SelectPriceField(tk, d)

GetHistoricalTickerData(tk, d) ==
    IF d.kind = "none" \/ d.kind = "empty" \/ d.rows = << >>
    THEN FetchRaised("ValueError")
    ELSE SelectPriceField(tk, d)

(***************************************************************************)
(* PortfolioOptimiser._get_log_returns_df, after the fetch:                *)
(* np.log(historical_data / historical_data.shift(1)).                     *)
(***************************************************************************)
RECURSIVE Log2(_)
Log2(i) == IF i <= 1 THEN 0 ELSE 1 + Log2(i \div 2)

\* np.log in units of ln 2, on the values the model's prices can produce
\* (ratios of powers of two, 0, inf, nan; a negative argument gives nan).
Log(x) ==
    IF IsNaN(x) THEN NaN
    ELSE IF IsInf(x) THEN (IF x.n > 0 THEN PInf ELSE NaN)
    ELSE IF x.n < 0 THEN NaN
    ELSE IF x.n = 0 THEN NInf
    ELSE Int2R(Log2(x.n) - Log2(x.d))

\* DataFrame.shift(1): row t holds the former row t-1, the first row nan.
Shift1(df) ==
    MkVec(Len(df), LAMBDA t :
        IF t = 1 THEN MkVec(Len(df[1]), LAMBDA j : NaN) ELSE df[t - 1])

LogReturns(historical_data) ==
    LET shifted == Shift1(historical_data)
    IN  MkVec(Len(historical_data), LAMBDA t :
            MkVec(Len(historical_data[t]), LAMBDA j :
                Log(RDiv(historical_data[t][j], shifted[t][j]))))

(***************************************************************************)
(* pandas statistics of the return table.                                  *)
(***************************************************************************)
\* DataFrame.mean(): per column, over the entries that are not nan.
ColumnMean(df, j) ==
    LET present == SelectSeq(Column(df, j), LAMBDA v : ~IsNaN(v))
    IN  IF present = << >> THEN NaN
        ELSE RDiv(RSum(present), Int2R(Len(present)))

Mean(df) == MkVec(Len(df[1]), LAMBDA j : ColumnMean(df, j))

\* DataFrame.cov(): for a pair of columns, the sample covariance (ddof = 1)
\* over the rows where both entries are finite; nan with fewer than two.
PairCov(df, i, j) ==
    LET both == SelectSeq(MkVec(Len(df), LAMBDA t : t),
                          LAMBDA t : IsFinite(df[t][i]) /\ IsFinite(df[t][j]))
        nobs == Len(both)
        xs == MkVec(nobs, LAMBDA k : df[both[k]][i])
        ys == MkVec(nobs, LAMBDA k : df[both[k]][j])
        mx == RDiv(RSum(xs), Int2R(nobs))
        my == RDiv(RSum(ys), Int2R(nobs))
        covxy == RSum(MkVec(nobs, LAMBDA k : RMul(RSub(xs[k], mx), RSub(ys[k], my))))
    IN  IF nobs < 2 THEN NaN ELSE RDiv(covxy, Int2R(nobs - 1))

Cov(df) ==
    MkVec(Len(df[1]), LAMBDA i : MkVec(Len(df[1]), LAMBDA j : PairCov(df, i, j)))

\* returns.mean() and returns.cov()
ReturnsMean(returns) == Mean(returns)
ReturnsCov(returns) == Cov(returns)

ScaleVec(v, a) == MkVec(Len(v), LAMBDA j : RMul(v[j], Int2R(a)))
ScaleMat(m, a) == MkVec(Len(m), LAMBDA i : ScaleVec(m[i], a))

\* np.sum(u * v)
Dot(u, v) == RSum(MkVec(Len(u), LAMBDA j : RMul(u[j], v[j])))

\* weights.T @ m @ weights
QuadForm(w, m) == Dot(w, MkVec(Len(m), LAMBDA i : Dot(m[i], w)))

(***************************************************************************)
(* Square roots and quotients by them.                                     *)
(***************************************************************************)
\* np.sqrt: nan for nan and for a negative argument.
Sqrt(x) == IF IsNaN(x) \/ x.n < 0 THEN [sq |-> NaN] ELSE [sq |-> x]

VolIsZero(v) == v.sq = Zero
VolIsNaN(v) == IsNaN(v.sq)
VolIsFinite(v) == IsFinite(v.sq)
VolLeq(u, v) == RLeq(u.sq, v.sq)
VolLess(u, v) == RLess(u.sq, v.sq)

QNaN == [num |-> NaN, den |-> [sq |-> One]]
QZero == [num |-> Zero, den |-> [sq |-> One]]
QInf(s) == [num |-> [n |-> s, d |-> 0], den |-> [sq |-> One]]

\* r / vol as IEEE computes it.
Quot(r, vol) ==
    IF IsNaN(r) \/ VolIsNaN(vol) THEN QNaN
    ELSE IF IsInf(vol.sq) THEN (IF IsInf(r) THEN QNaN ELSE QZero)
    ELSE IF VolIsZero(vol) THEN (IF r.n = 0 THEN QNaN ELSE QInf(Sign(r.n)))
    ELSE IF IsInf(r) THEN QInf(Sign(r.n))
    ELSE IF r.n = 0 THEN QZero
    ELSE [num |-> r, den |-> vol]

QIsZero(q) == q = QZero
QIsFinite(q) == IsFinite(q.num)

(***************************************************************************)
(* The process-global generator behind np.random.random: a state and the   *)
(* draws it yields.  Draws lie in [0, 1) and 0 is among them.              *)
(***************************************************************************)
Draw(s) == Frac(s % (MaxDraw + 1), MaxDraw + 1)

\* np.random.random(n), called in generator state s
RandomVector(s, n) == MkVec(n, LAMBDA i : Draw((s + i - 1) % RngPeriod))

AdvanceRng(s, n) == (s + n) % RngPeriod

(***************************************************************************)
(* PortfolioOptimiser._create_random_weights, given the draws.             *)
(***************************************************************************)
CreateRandomWeights(draws) ==
    LET total == RSum(draws)
    IN  MkVec(Len(draws), LAMBDA i : RDiv(draws[i], total))

(***************************************************************************)
(* The shared annualised statistics.                                       *)
(***************************************************************************)
\* np.sum(returns.mean() * weights) * TRADING_DAYS_IN_A_YEAR
GetAnnualisedPortfolioReturn(weights, returns) ==
    RMul(Dot(ReturnsMean(returns), weights), Int2R(TRADING_DAYS_IN_A_YEAR))

\* np.sqrt(np.dot(weights.T, np.dot(cov_matrix, weights)))
VolatilityOf(weights, cov_matrix) == Sqrt(QuadForm(weights, cov_matrix))

\* np.sqrt(np.dot(weights.T, np.dot(returns.cov() * TRADING_DAYS_IN_A_YEAR, weights)))
GetAnnualisedPortfolioVolatility(weights, returns) ==
    VolatilityOf(weights, ScaleMat(ReturnsCov(returns), TRADING_DAYS_IN_A_YEAR))

(***************************************************************************)
(* PortfolioOptimiser.get_expected_returns_and_volatility: one iteration   *)
(* per simulation, each drawing a fresh weight vector from the generator.  *)
(***************************************************************************)
SampledWeights(s, sims, n) ==
    MkVec(sims, LAMBDA k :
        CreateRandomWeights(RandomVector(AdvanceRng(s, (k - 1) * n), n)))

SimulationCloud(drawn, returns) ==
    [rets |-> MkVec(Len(drawn), LAMBDA k :
                  GetAnnualisedPortfolioReturn(drawn[k], returns)),
     vols |-> MkVec(Len(drawn), LAMBDA k :
                  GetAnnualisedPortfolioVolatility(drawn[k], returns))]

(***************************************************************************)
(* ndarray.round(3): to the nearest multiple of 10^-3, ties to even.       *)
(***************************************************************************)
RECURSIVE Pow10(_)
Pow10(e) == IF e = 0 THEN 1 ELSE 10 * Pow10(e - 1)

RoundHalfEven(p, q) ==
    LET fl == p \div q
        r == p % q
    IN  IF 2 * r < q THEN fl
        ELSE IF 2 * r > q THEN fl + 1
        ELSE IF fl % 2 = 0 THEN fl ELSE fl + 1

Round(x, decimals) ==
    IF ~IsFinite(x) THEN x
    ELSE Frac(RoundHalfEven(x.n * Pow10(decimals), x.d), Pow10(decimals))

RoundWeights(x) == MkVec(Len(x), LAMBDA i : Round(x[i], ROUND_DECIMALS))

(***************************************************************************)
(* The two optimisers.                                                     *)
(***************************************************************************)
EqualWeights(n) == MkVec(n, LAMBDA i : Frac(1, n))

\* The points the solver searches: the equal split of the whole portfolio
\* among the tickers of a non-empty subset.  They satisfy the bounds
\* (0, 1) and the sum-to-one constraint; the seed is among them.
Candidates(n) ==
    { MkVec(n, LAMBDA i : IF i \in S THEN Frac(1, Cardinality(S)) ELSE Zero) :
        S \in (SUBSET (1..n)) \ {{}} }

\* a < b for Sharpe ratios (quotients r / sqrt(v)), as IEEE orders them
QLess(a, b) ==
    /\ a # QNaN /\ b # QNaN /\ a # b
    /\ IF IsInf(a.num) THEN a.num.n < 0
       ELSE IF IsInf(b.num) THEN b.num.n > 0
       ELSE IF Sign(a.num.n) # Sign(b.num.n) THEN Sign(a.num.n) < Sign(b.num.n)
       ELSE IF a.num.n = 0 THEN FALSE
       ELSE LET ratio == RDiv(a.num, b.num)
                sq == RMul(ratio, ratio)
                vr == RDiv(a.den.sq, b.den.sq)
            IN  IF a.num.n > 0 THEN RLess(sq, vr) ELSE RLess(vr, sq)

\* A variant without the test of port_vol: port_return / port_vol.
SharpeRatioUnguarded(port_return, port_vol) == Quot(port_return, port_vol)

\* port_return / port_vol if port_vol != 0 else 0.0
SharpeRatio(port_return, port_vol) ==
    IF ~VolIsZero(port_vol) THEN Quot(port_return, port_vol) ELSE QZero

\* A variant that rounds the weights it reports but takes the statistics
\* from the solver's x.
PortfolioResultOfRaw(x, mean_returns, cov_matrix) ==
    LET port_return == Dot(x, mean_returns)
        port_vol == VolatilityOf(x, cov_matrix)
    IN  [weights |-> RoundWeights(x),
         expected_return |-> port_return,
         expected_volatility |-> port_vol,
         sharpe_ratio |-> SharpeRatio(port_return, port_vol)]

\* The statistics of the final weights: the solver's x rounded to 3
\* decimals, then return, volatility and Sharpe ratio of the rounded weights.
PortfolioResultOf(x, mean_returns, cov_matrix) ==
    LET optimal_weights == RoundWeights(x)
        port_return == Dot(optimal_weights, mean_returns)
        port_vol == VolatilityOf(optimal_weights, cov_matrix)
    IN  [weights |-> optimal_weights,
         expected_return |-> port_return,
         expected_volatility |-> port_vol,
         sharpe_ratio |-> SharpeRatio(port_return, port_vol)]

\* sco.minimize(..., method="SLSQP") from the seed: a candidate whose
\* objective is strictly below the seed's, or the seed itself when no
\* candidate improves on it (the seed already satisfies the optimality
\* conditions, or every comparison involves nan).
\* What the solver may report in opts["success"] along with its x.  The
\* callers read x alone.
SolverReports == {"True", "False"}

MinVolSolutions(cov_matrix, n) ==
    LET seed == VolatilityOf(EqualWeights(n), cov_matrix)
        better == { c \in Candidates(n) : VolLess(VolatilityOf(c, cov_matrix), seed) }
    IN  IF better = {} THEN {EqualWeights(n)} ELSE better

\* _min_func_sharpe is -port_return / port_vol on Python floats: it raises
\* ZeroDivisionError where port_vol is 0, so no point of zero volatility
\* is ever returned, and a seed of zero volatility ends the call.
QNeg(q) == [num |-> RNeg(q.num), den |-> q.den]

MinFuncSharpe(weights, mean_returns, cov_matrix) ==
    LET port_return == Dot(weights, mean_returns)
        port_vol == VolatilityOf(weights, cov_matrix)
    IN  IF VolIsZero(port_vol)
        THEN [error |-> "ZeroDivisionError", value |-> QNaN]
        ELSE [error |-> "none", value |-> QNeg(Quot(port_return, port_vol))]

SeedRaises(mean_returns, cov_matrix, n) ==
    MinFuncSharpe(EqualWeights(n), mean_returns, cov_matrix).error # "none"

SharpeAt(w, mean_returns, cov_matrix) ==
    Quot(Dot(w, mean_returns), VolatilityOf(w, cov_matrix))

MaxSharpeSolutions(mean_returns, cov_matrix, n) ==
    LET seed == SharpeAt(EqualWeights(n), mean_returns, cov_matrix)
        better == { c \in Candidates(n) :
                      /\ ~VolIsZero(VolatilityOf(c, cov_matrix))
                      /\ QLess(seed, SharpeAt(c, mean_returns, cov_matrix)) }
    IN  IF better = {} THEN {EqualWeights(n)} ELSE better

(***************************************************************************)
(* The calls.  Each operator gives every way one call can end, as records  *)
(* of what the call was given (tickers, and data: the provider's answer    *)
(* to its download), how many downloads it made, and what it raised or     *)
(* returned.                                                               *)
(***************************************************************************)
NoResult ==
    [weights |-> << >>, expected_return |-> NaN,
     expected_volatility |-> [sq |-> NaN], sharpe_ratio |-> QNaN]

NoCloud == [rets |-> << >>, vols |-> << >>]

Raised(tk, d, e, rets) ==
    [tickers |-> tk, data |-> d, fetches |-> 1, error |-> e,
     returns_df |-> rets, solver_x |-> << >>, solver_success |-> "none",
     result |-> NoResult]

Returned(tk, d, rets, x, res) ==
    [tickers |-> tk, data |-> d, fetches |-> 1, error |-> "none",
     returns_df |-> rets, solver_x |-> x, solver_success |-> "none",
     result |-> res]

\* A call that ran the solver and returned.
Solved(tk, d, rets, x, success, res) ==
    [Returned(tk, d, rets, x, res) EXCEPT !.solver_success = success]

\* PortfolioOptimiser._get_log_returns_df: one download, no check of what
\* the table holds.
LogReturnsCall(tk, d) ==
    LET fetched == GetHistoricalTickerData(tk, d)
    IN  IF fetched.error # "none"
        THEN Raised(tk, d, fetched.error, << >>)
        ELSE Returned(tk, d, LogReturns(fetched.table), << >>, NoResult)

\* MaximumSharpeRatioOptimiser.optimise_portfolio
MaxSharpeCall(tk, d) ==
    LET got == LogReturnsCall(tk, d)
        n == Len(tk)
        mean_returns == ScaleVec(ReturnsMean(got.returns_df), TRADING_DAYS_IN_A_YEAR)
        cov_matrix == ScaleMat(ReturnsCov(got.returns_df), TRADING_DAYS_IN_A_YEAR)
    IN  IF got.error # "none" THEN {got}
        ELSE IF SeedRaises(mean_returns, cov_matrix, n)
        THEN {Raised(tk, d, "ZeroDivisionError", got.returns_df)}
        ELSE { Solved(tk, d, got.returns_df, x, success,
                      PortfolioResultOf(x, mean_returns, cov_matrix)) :
                 x \in MaxSharpeSolutions(mean_returns, cov_matrix, n),
                 success \in SolverReports }

\* MinimumVolatilityOptimiser.optimise_portfolio
MinVolCall(tk, d) ==
    LET got == LogReturnsCall(tk, d)
        n == Len(tk)
        mean_returns == ScaleVec(ReturnsMean(got.returns_df), TRADING_DAYS_IN_A_YEAR)
        cov_matrix == ScaleMat(ReturnsCov(got.returns_df), TRADING_DAYS_IN_A_YEAR)
    IN  IF got.error # "none" THEN {got}
        ELSE { Solved(tk, d, got.returns_df, x, success,
                      PortfolioResultOf(x, mean_returns, cov_matrix)) :
                 x \in MinVolSolutions(cov_matrix, n),
                 success \in SolverReports }

\* The requests of the model and every way each call on them can end.
Requests ==
    UNION { { [tickers |-> tk, data |-> d] : d \in Responses(tk) } :
              tk \in TickerLists }

LogReturnsCalls == { LogReturnsCall(q.tickers, q.data) : q \in Requests }

MaxSharpeCalls == UNION { MaxSharpeCall(q.tickers, q.data) : q \in Requests }

MinVolCalls == UNION { MinVolCall(q.tickers, q.data) : q \in Requests }

(***************************************************************************)
(* The state: the configuration, the generator, the call in progress or    *)
(* just finished with everything it produced, and the request of the UI    *)
(* that makes the calls, if one does.                                      *)
(***************************************************************************)
VARIABLES
    rng,                    \* state of the process-global generator
    number_of_simulations,  \* PortfolioOptimiserConfig.number_of_simulations
    op,                     \* the last call, "idle" before any
    tickers,                \* its tickers argument
    data,                   \* what the provider answered to its download
    fetches,                \* downloads it made
    error,                  \* the exception it raised, "none" if it returned
    returns_df,             \* its return table
    solver_x,               \* what sco.minimize returned in x
    solver_success,         \* what it reported in success, "none" if it did not run
    result,                 \* the PortfolioResult it returned
    samples,                \* the weight vectors it sampled
    cloud,                  \* the (returns, volatilities) arrays it returned
    request                 \* the _run_optimisation in progress: where it is, and
                            \* the return table behind each thing it shows

vars == <<rng, number_of_simulations, op, tickers, data, fetches, error,
          returns_df, solver_x, solver_success, result, samples, cloud,
          request>>

NoRequest ==
    [pc |-> "none", tickers |-> << >>, sharpe_returns |-> << >>,
     minvol_returns |-> << >>, plotted_returns |-> << >>,
     cloud_returns |-> << >>]

NoCall ==
    /\ op = "idle"
    /\ tickers = << >>
    /\ data = NoneResponse
    /\ fetches = 0
    /\ error = "none"
    /\ returns_df = << >>
    /\ solver_x = << >>
    /\ solver_success = "none"
    /\ result = NoResult
    /\ samples = << >>
    /\ cloud = NoCloud

Init ==
    /\ rng \in 0..(RngPeriod - 1)
    /\ number_of_simulations \in 1..MaxSims
    /\ request = NoRequest
    /\ op = "idle"
    /\ tickers = << >>
    /\ data = NoneResponse
    /\ fetches = 0
    /\ error = "none"
    /\ returns_df = << >>
    /\ solver_x = << >>
    /\ solver_success = "none"
    /\ result = NoResult
    /\ samples = << >>
    /\ cloud = NoCloud

\* _get_log_returns_df(tickers, start_date, end_date)
GetLogReturnsDf ==
    /\ op = "idle"
    /\ \E c \in LogReturnsCalls :
         /\ tickers' = c.tickers
         /\ data' = c.data
         /\ fetches' = c.fetches
         /\ error' = c.error
         /\ returns_df' = c.returns_df
    /\ op' = "_get_log_returns_df"
    /\ UNCHANGED <<rng, number_of_simulations, solver_x, solver_success, result,
                   samples, cloud, request>>

\* MaximumSharpeRatioOptimiser.optimise_portfolio(tickers, start_date, end_date)
MaxSharpeOptimisePortfolio ==
    /\ op = "idle"
    /\ \E c \in MaxSharpeCalls :
         /\ tickers' = c.tickers
         /\ data' = c.data
         /\ fetches' = c.fetches
         /\ error' = c.error
         /\ returns_df' = c.returns_df
         /\ solver_x' = c.solver_x
         /\ solver_success' = c.solver_success
         /\ result' = c.result
    /\ op' = "max_sharpe"
    /\ UNCHANGED <<rng, number_of_simulations, samples, cloud, request>>

\* MinimumVolatilityOptimiser.optimise_portfolio(tickers, start_date, end_date)
MinVolOptimisePortfolio ==
    /\ op = "idle"
    /\ \E c \in MinVolCalls :
         /\ tickers' = c.tickers
         /\ data' = c.data
         /\ fetches' = c.fetches
         /\ error' = c.error
         /\ returns_df' = c.returns_df
         /\ solver_x' = c.solver_x
         /\ solver_success' = c.solver_success
         /\ result' = c.result
    /\ op' = "min_vol"
    /\ UNCHANGED <<rng, number_of_simulations, samples, cloud, request>>

\* get_expected_returns_and_volatility(tickers, returns_df), called with the
\* return table a call of _get_log_returns_df has just returned
GetExpectedReturnsAndVolatility ==
    /\ op = "_get_log_returns_df"
    /\ error = "none"
    /\ LET n == Len(tickers)
           drawn == SampledWeights(rng, number_of_simulations, n)
       IN  /\ samples' = drawn
           /\ cloud' = SimulationCloud(drawn, returns_df)
           /\ rng' = AdvanceRng(rng, number_of_simulations * n)
    /\ op' = "monte_carlo"
    /\ UNCHANGED <<number_of_simulations, tickers, data, fetches, error,
                   returns_df, solver_x, solver_success, result, request>>

\* The caller takes what the call returned or raised.
Return ==
    /\ op # "idle"
    /\ op' = "idle"
    /\ tickers' = << >>
    /\ data' = NoneResponse
    /\ fetches' = 0
    /\ error' = "none"
    /\ returns_df' = << >>
    /\ solver_x' = << >>
    /\ solver_success' = "none"
    /\ result' = NoResult
    /\ samples' = << >>
    /\ cloud' = NoCloud
    /\ UNCHANGED <<rng, number_of_simulations, request>>

Next ==
    \/ GetLogReturnsDf
    \/ MaxSharpeOptimisePortfolio
    \/ MinVolOptimisePortfolio
    \/ GetExpectedReturnsAndVolatility
    \/ Return

Spec == Init /\ [][Next]_vars

(***************************************************************************)
(* PortfolioOptimiserUI._run_optimisation: one request of the UI.  It      *)
(* calls the max-Sharpe optimiser, the min-volatility optimiser and        *)
(* _get_log_returns_df in turn, each of which downloads for itself, then   *)
(* plots the returns of the third call and samples the frontier from them. *)
(* An exception of a call ends the request.                                *)
(***************************************************************************)
RunTickerLists == { tk \in TickerLists : Len(tk) <= MaxRunTickers }

\* Every way each call of a request can end.
RunMaxSharpeCalls == { c \in MaxSharpeCalls : c.tickers \in RunTickerLists }
RunMinVolCalls == { c \in MinVolCalls : c.tickers \in RunTickerLists }
RunLogReturnsCalls == { c \in LogReturnsCalls : c.tickers \in RunTickerLists }

RunInit ==
    /\ rng \in 0..(RngPeriod - 1)
    /\ number_of_simulations \in 1..MaxSims
    /\ \E tk \in RunTickerLists :
         request = [NoRequest EXCEPT !.pc = "sharpe", !.tickers = tk]
    /\ NoCall

\* The call c is the one just made.
Takes(c) ==
    /\ tickers' = c.tickers
    /\ data' = c.data
    /\ fetches' = c.fetches
    /\ error' = c.error
    /\ returns_df' = c.returns_df
    /\ solver_x' = c.solver_x
    /\ solver_success' = c.solver_success
    /\ result' = c.result

\* Where the request goes after the call c: on, or out by c's exception.
After(c, pc, changed) ==
    IF c.error = "none" THEN [changed EXCEPT !.pc = pc]
    ELSE [request EXCEPT !.pc = "failed"]

\* sharpe_result = self.sharpe_optimiser.optimise_portfolio(tickers, ...)
RunMaxSharpe ==
    /\ request.pc = "sharpe"
    /\ \E c \in RunMaxSharpeCalls :
         /\ c.tickers = request.tickers
         /\ Takes(c)
         /\ request' = After(c, "minvol",
                             [request EXCEPT !.sharpe_returns = c.returns_df])
    /\ op' = "max_sharpe"
    /\ UNCHANGED <<rng, number_of_simulations, samples, cloud>>

\* minvol_result = self.minvol_optimiser.optimise_portfolio(tickers, ...)
RunMinVol ==
    /\ request.pc = "minvol"
    /\ \E c \in RunMinVolCalls :
         /\ c.tickers = request.tickers
         /\ Takes(c)
         /\ request' = After(c, "returns",
                             [request EXCEPT !.minvol_returns = c.returns_df])
    /\ op' = "min_vol"
    /\ UNCHANGED <<rng, number_of_simulations, samples, cloud>>

\* returns_df = self.sharpe_optimiser._get_log_returns_df(tickers, ...) and
\* the plot of it
RunLogReturns ==
    /\ request.pc = "returns"
    /\ \E c \in RunLogReturnsCalls :
         /\ c.tickers = request.tickers
         /\ Takes(c)
         /\ request' = After(c, "frontier",
                             [request EXCEPT !.plotted_returns = c.returns_df])
    /\ op' = "_get_log_returns_df"
    /\ UNCHANGED <<rng, number_of_simulations, samples, cloud>>

\* self.sharpe_optimiser.get_expected_returns_and_volatility(tickers,
\* returns_df) and the plot of the frontier
RunFrontier ==
    /\ request.pc = "frontier"
    /\ LET n == Len(request.tickers)
           drawn == SampledWeights(rng, number_of_simulations, n)
       IN  /\ samples' = drawn
           /\ cloud' = SimulationCloud(drawn, request.plotted_returns)
           /\ rng' = AdvanceRng(rng, number_of_simulations * n)
    /\ request' = [request EXCEPT !.pc = "done",
                                  !.cloud_returns = request.plotted_returns]
    /\ op' = "monte_carlo"
    /\ UNCHANGED <<number_of_simulations, tickers, data, fetches, error,
                   returns_df, solver_x, solver_success, result>>

RunNext ==
    \/ RunMaxSharpe
    \/ RunMinVol
    \/ RunLogReturns
    \/ RunFrontier

RunSpec == RunInit /\ [][RunNext]_vars

(***************************************************************************)
(* What the properties below speak of.                                     *)
(***************************************************************************)
RAbs(x) == [n |-> Abs(x.n), d |-> x.d]

\* the 1e-3 within which weights are to sum to one
SumTolerance == Frac(1, Pow10(ROUND_DECIMALS))

\* One of the three calls that fetch has ended.
CallEnded == op \in {"_get_log_returns_df", "max_sharpe", "min_vol"}

\* An optimiser has returned a PortfolioResult.
OptimiserReturned == op \in {"max_sharpe", "min_vol"} /\ error = "none"

\* The provider answered with no data.
NoData == data.kind \in {"none", "empty"}

\* Every price of the table is a positive number.
PricesPositive(rows) ==
    \A t \in 1..Len(rows) : \A j \in 1..Len(rows[t]) :
        IsFinite(rows[t][j]) /\ rows[t][j].n > 0

\* Some price of the table is non-positive or missing.
SomePriceInvalid(rows) == ~PricesPositive(rows)

\* The provider answered with a table of positive prices over at least
\* `steps` time steps.
SoundTable(steps) ==
    data.kind = "table" /\ Len(data.rows) >= steps /\ PricesPositive(data.rows)

\* A sound table long enough for every sample covariance to be defined
\* (two returns per column).
SoundData == SoundTable(3)

\* Every column of the return table has a positive sample variance.
NonDegenerate(returns) ==
    \A j \in 1..Len(returns[1]) :
        LET v == PairCov(returns, j, j) IN IsFinite(v) /\ v.n > 0

\* w is a valid WeightVector: components in [0, 1] that sum to one.
IsWeightVector(w) ==
    /\ \A i \in 1..Len(w) : RLeq(Zero, w[i]) /\ RLeq(w[i], One)
    /\ RSum(w) = One

\* The statistics of section 4.2 of the weights w on the return table.
StatsOf(w, returns) ==
    LET r == GetAnnualisedPortfolioReturn(w, returns)
        v == GetAnnualisedPortfolioVolatility(w, returns)
    IN  [expected_return |-> r, expected_volatility |-> v,
         sharpe_ratio |-> IF VolIsZero(v) THEN QZero ELSE Quot(r, v)]

(***************************************************************************)
(* C1.  The weights of every PortfolioResult (the solver's output rounded  *)
(* to 3 decimals) sum to 1 within 1e-3 and lie in [0, 1].  Stated on sound *)
(* data; it fails: six equally weighted tickers round to 0.167 each.       *)
(***************************************************************************)
C1_RoundedWeightsValid ==
    (OptimiserReturned /\ SoundData) =>
        /\ RLeq(RAbs(RSub(RSum(result.weights), One)), SumTolerance)
        /\ \A i \in 1..Len(result.weights) :
             RLeq(Zero, result.weights[i]) /\ RLeq(result.weights[i], One)

(***************************************************************************)
(* C2.  The return, volatility and Sharpe ratio stored in a PortfolioResult*)
(* are the ones the shared statistics give for the result's own rounded    *)
(* weights on the same return table (nan reproducing nan).                 *)
(***************************************************************************)
C2_StatsAreThoseOfRoundedWeights ==
    OptimiserReturned =>
        LET again == StatsOf(result.weights, returns_df)
        IN  /\ result.weights = RoundWeights(solver_x)
            /\ result.expected_return = again.expected_return
            /\ result.expected_volatility = again.expected_volatility
            /\ result.sharpe_ratio = again.sharpe_ratio

\* A result whose rounded weights differ from the solver's x, with
\* statistics that are not those of x.
C2_RoundingChangedStats ==
    /\ OptimiserReturned /\ SoundData
    /\ result.weights # solver_x
    /\ result.expected_volatility # StatsOf(solver_x, returns_df).expected_volatility
    /\ result.expected_volatility = StatsOf(result.weights, returns_df).expected_volatility

(***************************************************************************)
(* C3, as the code has it.  In every PortfolioResult the Sharpe ratio is 0 *)
(* when the volatility is 0 and expected_return / expected_volatility      *)
(* otherwise; it is 0 exactly when the volatility is 0 or the expected     *)
(* return is 0 over a finite non-zero volatility.                          *)
(***************************************************************************)
C3_SharpeZeroCases ==
    OptimiserReturned =>
        LET r == result.expected_return
            v == result.expected_volatility
        IN  /\ VolIsZero(v) => QIsZero(result.sharpe_ratio)
            /\ ~VolIsZero(v) => result.sharpe_ratio = Quot(r, v)
            /\ QIsZero(result.sharpe_ratio) <=>
                  \/ VolIsZero(v)
                  \/ r = Zero /\ VolIsFinite(v)

\* A result of zero volatility, where the guard gave the Sharpe ratio 0.
C3_ZeroVolatilityResult ==
    /\ OptimiserReturned /\ SoundData
    /\ VolIsZero(result.expected_volatility)
    /\ QIsZero(result.sharpe_ratio)

(***************************************************************************)
(* C3, as stated.  In every PortfolioResult the Sharpe ratio is 0 if and   *)
(* only if the volatility is 0, and is expected_return /                   *)
(* expected_volatility otherwise.                                          *)
(***************************************************************************)
C3_SharpeZeroIffVolatilityZero ==
    (OptimiserReturned /\ SoundData) =>
        /\ QIsZero(result.sharpe_ratio) <=> VolIsZero(result.expected_volatility)
        /\ ~VolIsZero(result.expected_volatility) =>
              result.sharpe_ratio =
                  Quot(result.expected_return, result.expected_volatility)

(***************************************************************************)
(* C4.  With at least 2 non-degenerate assets, the volatility stored by    *)
(* the minimum-volatility optimiser is at most that of the equal-weight    *)
(* portfolio on the same return table.  It fails where the rounded weights *)
(* sum to more than one.                                                   *)
(***************************************************************************)
C4_MinVolNoWorseThanEqualWeights ==
    (/\ op = "min_vol" /\ error = "none" /\ SoundData
     /\ Len(tickers) >= 2 /\ NonDegenerate(returns_df)) =>
        VolLeq(result.expected_volatility,
               GetAnnualisedPortfolioVolatility(EqualWeights(Len(tickers)),
                                                returns_df))

(***************************************************************************)
(* C5.  get_expected_returns_and_volatility returns two arrays of length   *)
(* number_of_simulations, the i-th return and the i-th volatility those of *)
(* the i-th sampled weights, and every value finite.  Stated on sound      *)
(* data; it fails where a sampled weight vector is nan.                    *)
(***************************************************************************)
C5_CloudIsFinite ==
    (op = "monte_carlo" /\ SoundData) =>
        /\ Len(cloud.rets) = number_of_simulations
        /\ Len(cloud.vols) = number_of_simulations
        /\ Len(samples) = number_of_simulations
        /\ \A i \in 1..number_of_simulations :
             /\ cloud.rets[i] = GetAnnualisedPortfolioReturn(samples[i], returns_df)
             /\ cloud.vols[i] = GetAnnualisedPortfolioVolatility(samples[i], returns_df)
             /\ IsFinite(cloud.rets[i])
             /\ VolIsFinite(cloud.vols[i])

(***************************************************************************)
(* C6.  Every weight vector _create_random_weights produces, whatever the  *)
(* draws (0 among them), has its components in [0, 1] and sums to 1.  It   *)
(* fails where every draw is 0.                                            *)
(***************************************************************************)
C6_RandomWeightsValid ==
    op = "monte_carlo" =>
        \A k \in 1..Len(samples) : IsWeightVector(samples[k])

(***************************************************************************)
(* C7.  From a price table of T+1 time steps, _get_log_returns_df returns  *)
(* T rows, row t holding ln(price[t] / price[t-1]); the first row of the   *)
(* prices gives no row of the result.  It fails: the result has T+1 rows,  *)
(* the first all nan.                                                      *)
(***************************************************************************)
C7_FirstRowDropped ==
    (op = "_get_log_returns_df" /\ error = "none" /\ SoundTable(2)) =>
        /\ Len(returns_df) = Len(data.rows) - 1
        /\ \A t \in 1..Len(returns_df) : \A j \in 1..Len(tickers) :
             /\ ~IsNaN(returns_df[t][j])
             /\ returns_df[t][j] = Log(RDiv(data.rows[t + 1][j], data.rows[t][j]))

(***************************************************************************)
(* C8.  A non-positive or missing price in the retrieved table makes the   *)
(* call fail with InvalidPriceError, with no return table and no           *)
(* PortfolioResult.  It fails: nothing looks at the prices.                *)
(***************************************************************************)
C8_InvalidPriceRaises ==
    (CallEnded /\ data.kind = "table" /\ SomePriceInvalid(data.rows)) =>
        /\ error = "InvalidPriceError"
        /\ returns_df = << >>
        /\ result = NoResult

(***************************************************************************)
(* C9.  A retrieved table of fewer than 2 time steps makes the call fail   *)
(* with InsufficientDataError, with no return table and no                 *)
(* PortfolioResult.  It fails: nothing looks at the number of rows.        *)
(***************************************************************************)
C9_TooFewRowsRaises ==
    (CallEnded /\ data.kind = "table" /\ Len(data.rows) < 2) =>
        /\ error = "InsufficientDataError"
        /\ returns_df = << >>
        /\ result = NoResult

(***************************************************************************)
(* C10.  When the provider yields None or an empty table, the fetch raises *)
(* its no-data error (a ValueError), and the call that fetched ends with   *)
(* that error after its one download, with no return table, no solver run  *)
(* and no PortfolioResult.                                                 *)
(***************************************************************************)
C10_NoDataPropagates ==
    (CallEnded /\ NoData) =>
        /\ error = "ValueError"
        /\ error = GetHistoricalTickerData(tickers, data).error
        /\ fetches = 1
        /\ returns_df = << >>
        /\ solver_x = << >>
        /\ result = NoResult

\* An optimiser that was answered with an empty table and raised.
C10_OptimiserGotNoData ==
    /\ op \in {"max_sharpe", "min_vol"}
    /\ NoData
    /\ error = "ValueError"
    /\ fetches = 1

(***************************************************************************)
(* The labels of the return table: division, log, mean and cov keep the    *)
(* columns of the fetched price table.                                     *)
(***************************************************************************)
ReturnColumns == GetHistoricalTickerData(tickers, data).columns

PositionOf(k, seq) == CHOOSE j \in 1..Len(seq) : seq[j] = k

\* pd.DataFrame(result.weights, index=tickers, columns=["Weight"]): the
\* weight shown for each ticker of the caller's list.
WeightShownFor(i) == result.weights[i]

\* The weight the optimiser gave the i-th ticker of the caller's list: the
\* component at that ticker's column of the return table.
WeightComputedFor(i) == result.weights[PositionOf(tickers[i], ReturnColumns)]

(***************************************************************************)
(* C11.  A PortfolioResult has one weight per requested ticker, and        *)
(* component i is the weight of the i-th ticker of the caller's list,      *)
(* whatever the column order of the provider's table.  It fails: the       *)
(* weights follow the columns of the table, which nothing reorders.        *)
(***************************************************************************)
C11_WeightsFollowTickerList ==
    (OptimiserReturned /\ SoundData) =>
        /\ Len(result.weights) = Len(tickers)
        /\ \A i \in 1..Len(tickers) : WeightShownFor(i) = WeightComputedFor(i)

(***************************************************************************)
(* C12.  For every non-empty response, get_historical_ticker_data returns  *)
(* a table over the response's dates with exactly one column per requested *)
(* ticker; for one ticker a one-column table named after it, whether the   *)
(* price field of the response is a series or a table.  It fails: for one  *)
(* ticker and a field that is already a table the call raises.             *)
(***************************************************************************)
C12_FetchReturnsTable ==
    (CallEnded /\ data.kind = "table") =>
        LET got == GetHistoricalTickerData(tickers, data)
        IN  /\ got.error = "none"
            /\ error \notin {"AttributeError", "AssertionError"}
            /\ Len(got.table) = Len(data.rows)
            /\ \A t \in 1..Len(got.table) : Len(got.table[t]) = Len(tickers)
            /\ Len(got.columns) = Len(tickers)
            /\ {got.columns[j] : j \in 1..Len(got.columns)} =
                   {tickers[i] : i \in 1..Len(tickers)}
            /\ Len(tickers) = 1 => got.columns = tickers

(***************************************************************************)
(* What a caller can read of the solver's convergence in a                 *)
(* PortfolioResult: the value of its status field, "none" where the        *)
(* result has no such field.                                               *)
(***************************************************************************)
ConvergenceShown(res) ==
    IF "converged" \in DOMAIN res THEN res.converged ELSE "none"

(***************************************************************************)
(* C13.  When the solver reports non-convergence, optimise_portfolio still *)
(* returns a PortfolioResult built from the solver's iterate, and the      *)
(* result carries a flag that tells it from a converged one.  It fails:    *)
(* the result is returned, but it has no such flag.                        *)
(***************************************************************************)
C13_NonConvergenceFlagged ==
    (op \in {"max_sharpe", "min_vol"} /\ solver_success = "False") =>
        /\ error = "none"
        /\ result.weights = RoundWeights(solver_x)
        /\ ConvergenceShown(result) = solver_success

(***************************************************************************)
(* C14.  The statistics inside the optimisers are those of the shared      *)
(* functions: the max-Sharpe objective is minus the shared Sharpe ratio    *)
(* (0 where the volatility is 0) at every weight vector, here the seed,    *)
(* and the final statistics are the shared ones.  It fails: the objective  *)
(* divides by a volatility of 0.                                           *)
(***************************************************************************)
C14_OptimiserStatsAreShared ==
    (op \in {"max_sharpe", "min_vol"} /\ SoundData /\ returns_df # << >>) =>
        LET seed == EqualWeights(Len(tickers))
            mean_returns == ScaleVec(ReturnsMean(returns_df), TRADING_DAYS_IN_A_YEAR)
            cov_matrix == ScaleMat(ReturnsCov(returns_df), TRADING_DAYS_IN_A_YEAR)
            objective == MinFuncSharpe(seed, mean_returns, cov_matrix)
            final == StatsOf(result.weights, returns_df)
        IN  /\ op = "max_sharpe" =>
                 /\ objective.error = "none"
                 /\ objective.value = QNeg(StatsOf(seed, returns_df).sharpe_ratio)
                 /\ error # "ZeroDivisionError"
            /\ error = "none" =>
                 /\ result.expected_return = final.expected_return
                 /\ result.expected_volatility = final.expected_volatility
                 /\ result.sharpe_ratio = final.sharpe_ratio

(***************************************************************************)
(* C15.  Within one request of the UI, the max-Sharpe result, the          *)
(* min-volatility result, the plotted log-returns and the simulation cloud *)
(* all come from one and the same return table, whatever the provider      *)
(* answers to successive downloads.  It fails: each of the three calls     *)
(* downloads for itself.                                                   *)
(***************************************************************************)
C15_OneReturnTablePerRequest ==
    request.pc = "done" =>
        /\ request.minvol_returns = request.sharpe_returns
        /\ request.plotted_returns = request.sharpe_returns
        /\ request.cloud_returns = request.sharpe_returns

(***************************************************************************)
(* C16.  No call reads or writes mutable state shared across calls: each   *)
(* call leaves the state of the process-global generator as it found it,   *)
(* so that no later call's draws depend on the calls made before it.  It   *)
(* fails: get_expected_returns_and_volatility draws its weights from       *)
(* np.random.random, the unseeded generator of the process, and advances   *)
(* it.  The optimise_portfolio calls do leave it alone.                    *)
(***************************************************************************)
C16_NoSharedStateWritten == [][rng' = rng]_vars

=============================================================================
